---- MODULE Spec2Model ----
(***************************************************************************)
(* scripts/validate_keymap.py: a lint over the raw text of a ZMK keymap.   *)
(* main reads one file, extract_bindings scans it for "&behavior ARG"      *)
(* declarations, validate_keymap tests each argument against the table of  *)
(* its behavior and collects one message per failure, and main prints the  *)
(* messages and sets the exit status.                                      *)
(*                                                                         *)
(* A Python str is modelled as a sequence of one-character strings, so     *)
(* that splitting, stripping, the regular expression, the substring tests, *)
(* sorting and the message formatting are computed character by character. *)
(* The three non-ASCII characters of the model are written by code point:  *)
(* "U+2717" and "U+2713" (the marks main prints) and "U+00E9" (a letter    *)
(* that \w accepts and [A-Za-z0-9_] does not).                             *)
(***************************************************************************)
EXTENDS Integers, Sequences, FiniteSets, TLC

VARIABLES pc, argv, content, lines, bindings, bpos, errors, epos, out, status

vars == <<pc, argv, content, lines, bindings, bpos, errors, epos, out, status>>

-----------------------------------------------------------------------------
(* Bounds of the model.                                                    *)

\* The file content is a concatenation of at most MaxFrags fragments.
MaxFrags == 3

\* The command line carries at most MaxArgs arguments after the program name.
MaxArgs == 2

-----------------------------------------------------------------------------
(* Characters and the str methods the program calls.                       *)

Upper ==
  {"A","B","C","D","E","F","G","H","I","J","K","L","M",
   "N","O","P","Q","R","S","T","U","V","W","X","Y","Z"}

Lower ==
  {"a","b","c","d","e","f","g","h","i","j","k","l","m",
   "n","o","p","q","r","s","t","u","v","w","x","y","z"}

DigitChars == <<"0","1","2","3","4","5","6","7","8","9">>

Digits == {DigitChars[d] : d \in 1..10}

\* The class [A-Za-z0-9_] of the pattern's second group.
ArgChars == Upper \cup Lower \cup Digits \cup {"_"}

\* The class \w of a str pattern: Unicode letters and digits and "_".
WordChars == ArgChars \cup {"U+00E9"}

\* The class \s of a str pattern, which is also what str.strip() removes.
Whitespace == {" ", "\t", "\n", "\r", "\f"}

\* The characters of the model in code point order.
CodePoints ==
  <<"\t","\n","\f","\r"," ","&","'","(",")","*",",",".","/",
    "0","1","2","3","4","5","6","7","8","9",":","<",">","?",
    "A","B","C","D","E","F","G","H","I","J","K","L","M",
    "N","O","P","Q","R","S","T","U","V","W","X","Y","Z","_",
    "a","b","c","d","e","f","g","h","i","j","k","l","m",
    "n","o","p","q","r","s","t","u","v","w","x","y","z",
    "U+00E9","U+2713","U+2717">>

Ord(c) == CHOOSE n \in 1..Len(CodePoints) : CodePoints[n] = c

Min(S) == CHOOSE x \in S : \A y \in S : x <= y

Max(S) == CHOOSE x \in S : \A y \in S : x >= y

\* a < b on str: the first differing character decides, else the length.
StrLess(a, b) ==
  LET n == IF Len(a) < Len(b) THEN Len(a) ELSE Len(b)
      diff == {j \in 1..n : a[j] /= b[j]}
  IN  IF diff = {} THEN Len(a) < Len(b)
      ELSE Ord(a[Min(diff)]) < Ord(b[Min(diff)])

RECURSIVE SortedDesc(_)
\* A plausible slip: the valid values listed in descending order.
SortedDesc(set) ==
  IF set = {} THEN <<>>
  ELSE LET m == CHOOSE x \in set : \A y \in set \ {x} : StrLess(y, x)
       IN  <<m>> \o SortedDesc(set \ {m})

RECURSIVE Sorted(_)
\* sorted(set): ascending by StrLess.
Sorted(set) ==
  IF set = {} THEN <<>>
  ELSE LET m == CHOOSE x \in set : \A y \in set \ {x} : StrLess(x, y)
       IN  <<m>> \o Sorted(set \ {m})

RECURSIVE Join(_, _)
\* sep.join(xs)
Join(sep, xs) ==
  IF xs = <<>> THEN <<>>
  ELSE IF Len(xs) = 1 THEN xs[1]
  ELSE xs[1] \o sep \o Join(sep, Tail(xs))

RECURSIVE IntToStr(_)
\* str(n) of a non-negative int, as an f-string formats it.
IntToStr(n) ==
  IF n < 10 THEN <<DigitChars[n + 1]>>
  ELSE IntToStr(n \div 10) \o <<DigitChars[(n % 10) + 1]>>

\* s.startswith(p)
StartsWith(s, p) == Len(p) <= Len(s) /\ SubSeq(s, 1, Len(p)) = p

\* A plausible slip: the line tested without being stripped.
StripNothing(s) == s

\* s.strip()
Strip(s) ==
  LET keep == {j \in 1..Len(s) : s[j] \notin Whitespace}
  IN  IF keep = {} THEN <<>> ELSE SubSeq(s, Min(keep), Max(keep))

\* sub in s
Contains(sub, s) ==
  \E j \in 1..(Len(s) - Len(sub) + 1) : SubSeq(s, j, j + Len(sub) - 1) = sub

RECURSIVE Split(_, _)
\* s.split(sep) for a one-character separator.
Split(s, sep) ==
  LET at == {j \in 1..Len(s) : s[j] = sep}
  IN  IF at = {} THEN <<s>>
      ELSE <<SubSeq(s, 1, Min(at) - 1)>>
             \o Split(SubSeq(s, Min(at) + 1, Len(s)), sep)

IsPathPart(p) == p /= <<>> /\ p /= <<".">>

\* str(Path(arg)): empty and "." components and a trailing "/" are dropped.
PathStr(arg) ==
  LET parts == SelectSeq(Split(arg, "/"), IsPathPart)
      root == IF arg /= <<>> /\ arg[1] = "/" THEN <<"/">> ELSE <<>>
  IN  IF parts = <<>> /\ root = <<>> THEN <<".">>
      ELSE root \o Join(<<"/">>, parts)

-----------------------------------------------------------------------------
(* extract_bindings: the comment test and re.finditer over one line.       *)

RECURSIVE Run(_, _, _)
\* The length of the longest run of characters of class cls starting at from.
Run(line, from, cls) ==
  IF from <= Len(line) /\ line[from] \in cls
  THEN 1 + Run(line, from + 1, cls)
  ELSE 0

NoMatch == [ok |-> FALSE, end |-> 0, behavior |-> <<>>, arg |-> <<>>]

\* A plausible slip: the separator matched as " +" instead of \s+.
MatchAtSpacesOnly(line, from) ==
  IF line[from] /= "&" THEN NoMatch
  ELSE
    LET wmax == Run(line, from + 1, WordChars)
        cand == {c \in UNION {{<<w, s>> : s \in 1..Run(line, from + 1 + w, {" "})}
                                : w \in 1..wmax} :
                   Run(line, from + 1 + c[1] + c[2], ArgChars) >= 1}
    IN  IF cand = {} THEN NoMatch
        ELSE
          LET w == Max({c[1] : c \in cand})
              s == Max({c[2] : c \in {d \in cand : d[1] = w}})
              a == Run(line, from + 1 + w + s, ArgChars)
          IN  [ok |-> TRUE,
               end |-> from + 1 + w + s + a,
               behavior |-> SubSeq(line, from + 1, from + w),
               arg |-> SubSeq(line, from + 1 + w + s, from + w + s + a)]

\* One attempt of the pattern &(\w+)\s+([A-Za-z0-9_]+) at position from.
\* Every quantifier is greedy and gives back characters on failure: of the
\* splits <<w, s>> into behavior and separator lengths that let the argument
\* class match at least once, the engine returns the one with the longest
\* behavior, then the longest separator, then the longest argument.
\* end is the position after the match.
MatchAt(line, from) ==
  IF line[from] /= "&" THEN NoMatch
  ELSE
    LET wmax == Run(line, from + 1, WordChars)
        cand == {c \in UNION {{<<w, s>> : s \in 1..Run(line, from + 1 + w, Whitespace)}
                                : w \in 1..wmax} :
                   Run(line, from + 1 + c[1] + c[2], ArgChars) >= 1}
    IN  IF cand = {} THEN NoMatch
        ELSE
          LET w == Max({c[1] : c \in cand})
              s == Max({c[2] : c \in {d \in cand : d[1] = w}})
              a == Run(line, from + 1 + w + s, ArgChars)
          IN  [ok |-> TRUE,
               end |-> from + 1 + w + s + a,
               behavior |-> SubSeq(line, from + 1, from + w),
               arg |-> SubSeq(line, from + 1 + w + s, from + w + s + a)]

RECURSIVE FindIter(_, _)
\* re.finditer: the matches left to right, each search resuming where the
\* previous match ended, or one character on where no match starts.
FindIter(line, from) ==
  IF from > Len(line) THEN <<>>
  ELSE LET m == MatchAt(line, from)
       IN  IF m.ok THEN <<m>> \o FindIter(line, m.end)
           ELSE FindIter(line, from + 1)

\* The test of line 81.
IsCommentLine(line) ==
  \/ StartsWith(Strip(line), <<"/","/">>)
  \/ StartsWith(Strip(line), <<"/","*">>)

\* The triples that line number n adds to bindings.
LineBindings(n, line) ==
  IF IsCommentLine(line) THEN <<>>
  ELSE LET ms == FindIter(line, 1)
       IN  [j \in 1..Len(ms) |-> <<n, ms[j].behavior, ms[j].arg>>]

RECURSIVE ExtractFrom(_, _)
\* The loop of extract_bindings from line number n on.
ExtractFrom(ls, n) ==
  IF n > Len(ls) THEN <<>>
  ELSE LineBindings(n, ls[n]) \o ExtractFrom(ls, n + 1)

\* extract_bindings(content)
extract_bindings(text) == ExtractFrom(Split(text, "\n"), 1)

-----------------------------------------------------------------------------
(* The tables.                                                             *)

VALID_KEYCODES == {
    <<"A">>,
    <<"A","M","P","E","R","S","A","N","D">>,
    <<"A","M","P","S">>,
    <<"A","P","O","S">>,
    <<"A","P","O","S","T","R","O","P","H","E">>,
    <<"A","S","T","E","R","I","S","K">>,
    <<"A","S","T","R","K">>,
    <<"A","T">>,
    <<"A","T","_","S","I","G","N">>,
    <<"B">>,
    <<"B","A","C","K","S","L","A","S","H">>,
    <<"B","A","C","K","S","P","A","C","E">>,
    <<"B","O","O","T","L","O","A","D","E","R">>,
    <<"B","S","L","H">>,
    <<"B","S","P","C">>,
    <<"B","T","_","C","L","R">>,
    <<"B","T","_","C","L","R","_","A","L","L">>,
    <<"B","T","_","N","X","T">>,
    <<"B","T","_","P","R","V">>,
    <<"B","T","_","S","E","L"," ","0">>,
    <<"B","T","_","S","E","L"," ","1">>,
    <<"B","T","_","S","E","L"," ","2">>,
    <<"B","T","_","S","E","L"," ","3">>,
    <<"B","T","_","S","E","L"," ","4">>,
    <<"C">>,
    <<"C","A","P","S">>,
    <<"C","A","P","S","L","O","C","K">>,
    <<"C","A","P","S","_","L","O","C","K">>,
    <<"C","A","R","E","T">>,
    <<"C","O","L","O","N">>,
    <<"C","O","M","M","A">>,
    <<"C","_","A","C","_","B","A","C","K">>,
    <<"C","_","A","C","_","F","O","R","W","A","R","D">>,
    <<"C","_","A","C","_","H","O","M","E">>,
    <<"C","_","A","C","_","R","E","F","R","E","S","H">>,
    <<"C","_","A","C","_","S","E","A","R","C","H">>,
    <<"C","_","A","L","_","C","A","L","C">>,
    <<"C","_","A","L","_","F","I","L","E","S">>,
    <<"C","_","A","L","_","L","O","C","K">>,
    <<"C","_","A","L","_","M","A","I","L">>,
    <<"C","_","A","L","_","W","W","W">>,
    <<"C","_","B","R","I","G","H","T","N","E","S","S","_","D","E","C">>,
    <<"C","_","B","R","I","G","H","T","N","E","S","S","_","I","N","C">>,
    <<"C","_","B","R","I","_","D","N">>,
    <<"C","_","B","R","I","_","U","P">>,
    <<"C","_","F","A","S","T","_","F","O","R","W","A","R","D">>,
    <<"C","_","F","F">>,
    <<"C","_","M","U","T","E">>,
    <<"C","_","N","E","X","T">>,
    <<"C","_","P","A","U","S","E">>,
    <<"C","_","P","L","A","Y">>,
    <<"C","_","P","L","A","Y","_","P","A","U","S","E">>,
    <<"C","_","P","O","W","E","R">>,
    <<"C","_","P","P">>,
    <<"C","_","P","R","E","V">>,
    <<"C","_","P","R","E","V","I","O","U","S">>,
    <<"C","_","P","W","R">>,
    <<"C","_","R","E","W","I","N","D">>,
    <<"C","_","R","W">>,
    <<"C","_","S","L","E","E","P">>,
    <<"C","_","S","T","O","P">>,
    <<"C","_","V","O","L","U","M","E","_","D","O","W","N">>,
    <<"C","_","V","O","L","U","M","E","_","U","P">>,
    <<"C","_","V","O","L","_","D","N">>,
    <<"C","_","V","O","L","_","U","P">>,
    <<"D">>,
    <<"D","E","L">>,
    <<"D","E","L","E","T","E">>,
    <<"D","L","L","R">>,
    <<"D","O","L","L","A","R">>,
    <<"D","O","T">>,
    <<"D","O","U","B","L","E","_","Q","U","O","T","E","S">>,
    <<"D","O","W","N">>,
    <<"D","Q","T">>,
    <<"E">>,
    <<"E","N","D">>,
    <<"E","N","T","E","R">>,
    <<"E","Q","U","A","L">>,
    <<"E","S","C">>,
    <<"E","S","C","A","P","E">>,
    <<"E","X","C","L">>,
    <<"E","X","C","L","A","M","A","T","I","O","N">>,
    <<"F">>,
    <<"F","1">>,
    <<"F","1","0">>,
    <<"F","1","1">>,
    <<"F","1","2">>,
    <<"F","1","3">>,
    <<"F","1","4">>,
    <<"F","1","5">>,
    <<"F","1","6">>,
    <<"F","1","7">>,
    <<"F","1","8">>,
    <<"F","1","9">>,
    <<"F","2">>,
    <<"F","2","0">>,
    <<"F","2","1">>,
    <<"F","2","2">>,
    <<"F","2","3">>,
    <<"F","2","4">>,
    <<"F","3">>,
    <<"F","4">>,
    <<"F","5">>,
    <<"F","6">>,
    <<"F","7">>,
    <<"F","8">>,
    <<"F","9">>,
    <<"F","S","L","H">>,
    <<"G">>,
    <<"G","R","A","V","E">>,
    <<"G","T">>,
    <<"H">>,
    <<"H","A","S","H">>,
    <<"H","O","M","E">>,
    <<"I">>,
    <<"I","N","S">>,
    <<"I","N","S","E","R","T">>,
    <<"J">>,
    <<"K">>,
    <<"K","P","_","D","I","V","I","D","E">>,
    <<"K","P","_","D","O","T">>,
    <<"K","P","_","E","N","T","E","R">>,
    <<"K","P","_","E","Q","U","A","L">>,
    <<"K","P","_","M","I","N","U","S">>,
    <<"K","P","_","M","U","L","T","I","P","L","Y">>,
    <<"K","P","_","N","0">>,
    <<"K","P","_","N","1">>,
    <<"K","P","_","N","2">>,
    <<"K","P","_","N","3">>,
    <<"K","P","_","N","4">>,
    <<"K","P","_","N","5">>,
    <<"K","P","_","N","6">>,
    <<"K","P","_","N","7">>,
    <<"K","P","_","N","8">>,
    <<"K","P","_","N","9">>,
    <<"K","P","_","N","U","M","L","O","C","K">>,
    <<"K","P","_","P","L","U","S">>,
    <<"L">>,
    <<"L","A","L","T">>,
    <<"L","B","K","T">>,
    <<"L","B","R","C">>,
    <<"L","C","L","K">>,
    <<"L","C","M","D">>,
    <<"L","C","T","R","L">>,
    <<"L","E","F","T">>,
    <<"L","E","F","T","_","B","R","A","C","E">>,
    <<"L","E","F","T","_","B","R","A","C","K","E","T">>,
    <<"L","E","F","T","_","P","A","R","E","N","T","H","E","S","I","S">>,
    <<"L","G","U","I">>,
    <<"L","M","E","T","A">>,
    <<"L","P","A","R">>,
    <<"L","S","H","F","T">>,
    <<"L","S","H","I","F","T">>,
    <<"L","T">>,
    <<"L","W","I","N">>,
    <<"M">>,
    <<"M","B","1">>,
    <<"M","B","2">>,
    <<"M","B","3">>,
    <<"M","B","4">>,
    <<"M","B","5">>,
    <<"M","C","L","K">>,
    <<"M","I","N","U","S">>,
    <<"M","O","V","E","_","D","O","W","N">>,
    <<"M","O","V","E","_","L","E","F","T">>,
    <<"M","O","V","E","_","R","I","G","H","T">>,
    <<"M","O","V","E","_","U","P">>,
    <<"N">>,
    <<"N","0">>,
    <<"N","1">>,
    <<"N","2">>,
    <<"N","3">>,
    <<"N","4">>,
    <<"N","5">>,
    <<"N","6">>,
    <<"N","7">>,
    <<"N","8">>,
    <<"N","9">>,
    <<"N","U","M","B","E","R","_","0">>,
    <<"N","U","M","B","E","R","_","1">>,
    <<"N","U","M","B","E","R","_","2">>,
    <<"N","U","M","B","E","R","_","3">>,
    <<"N","U","M","B","E","R","_","4">>,
    <<"N","U","M","B","E","R","_","5">>,
    <<"N","U","M","B","E","R","_","6">>,
    <<"N","U","M","B","E","R","_","7">>,
    <<"N","U","M","B","E","R","_","8">>,
    <<"N","U","M","B","E","R","_","9">>,
    <<"N","U","M","L","O","C","K">>,
    <<"O">>,
    <<"O","U","T","_","B","L","E">>,
    <<"O","U","T","_","T","O","G">>,
    <<"O","U","T","_","U","S","B">>,
    <<"P">>,
    <<"P","A","G","E","_","D","O","W","N">>,
    <<"P","A","G","E","_","U","P">>,
    <<"P","A","U","S","E">>,
    <<"P","A","U","S","E","_","B","R","E","A","K">>,
    <<"P","E","R","C","E","N","T">>,
    <<"P","E","R","I","O","D">>,
    <<"P","G","_","D","N">>,
    <<"P","G","_","U","P">>,
    <<"P","I","P","E">>,
    <<"P","L","U","S">>,
    <<"P","O","U","N","D">>,
    <<"P","R","C","N","T">>,
    <<"P","R","I","N","T","S","C","R","E","E","N">>,
    <<"P","R","I","N","T","_","S","C","R","E","E","N">>,
    <<"P","S","C","R","N">>,
    <<"Q">>,
    <<"Q","M","A","R","K">>,
    <<"Q","U","E","S","T","I","O","N">>,
    <<"R">>,
    <<"R","A","L","T">>,
    <<"R","B","K","T">>,
    <<"R","B","R","C">>,
    <<"R","C","L","K">>,
    <<"R","C","M","D">>,
    <<"R","C","T","R","L">>,
    <<"R","E","S","E","T">>,
    <<"R","E","T">>,
    <<"R","E","T","U","R","N">>,
    <<"R","G","U","I">>,
    <<"R","I","G","H","T">>,
    <<"R","I","G","H","T","_","B","R","A","C","E">>,
    <<"R","I","G","H","T","_","B","R","A","C","K","E","T">>,
    <<"R","I","G","H","T","_","P","A","R","E","N","T","H","E","S","I","S">>,
    <<"R","M","E","T","A">>,
    <<"R","P","A","R">>,
    <<"R","S","H","F","T">>,
    <<"R","S","H","I","F","T">>,
    <<"R","W","I","N">>,
    <<"S">>,
    <<"S","C","R","L","_","D","O","W","N">>,
    <<"S","C","R","L","_","L","E","F","T">>,
    <<"S","C","R","L","_","R","I","G","H","T">>,
    <<"S","C","R","L","_","U","P">>,
    <<"S","C","R","O","L","L","L","O","C","K">>,
    <<"S","C","R","O","L","L","_","L","O","C","K">>,
    <<"S","E","M","I">>,
    <<"S","E","M","I","C","O","L","O","N">>,
    <<"S","L","A","S","H">>,
    <<"S","L","C","K">>,
    <<"S","P","A","C","E">>,
    <<"S","Q","T">>,
    <<"S","T","A","R">>,
    <<"T">>,
    <<"T","A","B">>,
    <<"T","I","L","D","E">>,
    <<"U">>,
    <<"U","N","D","E","R">>,
    <<"U","N","D","E","R","S","C","O","R","E">>,
    <<"U","P">>,
    <<"V">>,
    <<"W">>,
    <<"X">>,
    <<"Y">>,
    <<"Z">>
  }

VALID_BEHAVIORS ==
  {<<"t","r","a","n","s">>, <<"n","o","n","e">>, <<"k","p">>, <<"m","o">>, <<"l","t">>, <<"m","t">>, <<"s","k">>, <<"s","l">>, <<"t","o","g">>, <<"t","o">>,
   <<"b","t">>, <<"m","k","p">>, <<"m","s","c">>, <<"m","m","v">>, <<"m","m","s">>, <<"o","u","t">>, <<"r","g","b","_","u","g">>, <<"e","x","t","_","p","o","w","e","r">>,
   <<"c","a","p","s","_","w","o","r","d">>, <<"k","e","y","_","r","e","p","e","a","t">>, <<"r","e","s","e","t">>, <<"b","o","o","t","l","o","a","d","e","r">>, <<"s","y","s","_","r","e","s","e","t">>}

valid_mkp ==
  {<<"L","C","L","K">>, <<"R","C","L","K">>, <<"M","C","L","K">>, <<"M","B","1">>, <<"M","B","2">>, <<"M","B","3">>, <<"M","B","4">>, <<"M","B","5">>}

valid_msc == {<<"S","C","R","L","_","U","P">>, <<"S","C","R","L","_","D","O","W","N">>, <<"S","C","R","L","_","L","E","F","T">>, <<"S","C","R","L","_","R","I","G","H","T">>}

valid_mmv == {<<"M","O","V","E","_","U","P">>, <<"M","O","V","E","_","D","O","W","N">>, <<"M","O","V","E","_","L","E","F","T">>, <<"M","O","V","E","_","R","I","G","H","T">>}

-----------------------------------------------------------------------------
(* validate_keymap: one iteration of the loop over the bindings.           *)

\* A plausible slip: the second test written as elif.
SuggestionsElif(arg) ==
  IF Contains(<<"V","O","L","_","M","U","T","E">>, arg) THEN <<<<"C","_","M","U","T","E">>>>
  ELSE IF Contains(<<"V","O","L","_","D","O","W","N">>, arg) THEN <<<<"C","_","V","O","L","_","D","N">>>>
  ELSE <<>>

\* Lines 106-110: the suggestions list of an unknown keycode.
Suggestions(arg) ==
  (IF Contains(<<"V","O","L","_","M","U","T","E">>, arg) THEN <<<<"C","_","M","U","T","E">>>> ELSE <<>>)
    \o (IF Contains(<<"V","O","L","_","D","O","W","N">>, arg) THEN <<<<"C","_","V","O","L","_","D","N">>>> ELSE <<>>)

\* A plausible slip: the message built without the line number.
KpMessageNoLine(n, arg) ==
  <<"U","n","k","n","o","w","n"," ","k","e","y","c","o","d","e"," ","'">> \o arg \o <<"'">>
    \o (IF Suggestions(arg) /= <<>>
        THEN <<" ","(","d","i","d"," ","y","o","u"," ","m","e","a","n",":"," ">> \o Join(<<","," ">>, Suggestions(arg)) \o <<"?",")">>
        ELSE <<>>)

\* Lines 111-113.
KpMessage(n, arg) ==
  <<"L","i","n","e"," ">> \o IntToStr(n) \o <<":"," ","U","n","k","n","o","w","n"," ","k","e","y","c","o","d","e"," ","'">> \o arg \o <<"'">>
    \o (IF Suggestions(arg) /= <<>>
        THEN <<" ","(","d","i","d"," ","y","o","u"," ","m","e","a","n",":"," ">> \o Join(<<","," ">>, Suggestions(arg)) \o <<"?",")">>
        ELSE <<>>)

\* The f-string of lines 117, 120 and 123; what is "mouse button", "scroll
\* code" or "mouse move".
SetMessage(n, what, arg, valid) ==
  <<"L","i","n","e"," ">> \o IntToStr(n) \o <<":"," ","I","n","v","a","l","i","d"," ">> \o what \o <<" ","'">> \o arg
    \o <<"'"," ","(","v","a","l","i","d",":"," ">> \o Join(<<","," ">>, Sorted(valid)) \o <<")">>

\* A plausible slip: a final else that rejects every other behavior.
CheckBindingStrict(b) ==
  LET n == b[1]
      behavior == b[2]
      arg == b[3]
  IN  IF behavior = <<"k","p">>
      THEN IF arg \notin VALID_KEYCODES THEN <<KpMessage(n, arg)>> ELSE <<>>
      ELSE IF behavior = <<"m","k","p">>
      THEN IF arg \notin valid_mkp
           THEN <<SetMessage(n, <<"m","o","u","s","e"," ","b","u","t","t","o","n">>, arg, valid_mkp)>> ELSE <<>>
      ELSE IF behavior = <<"m","s","c">>
      THEN IF arg \notin valid_msc
           THEN <<SetMessage(n, <<"s","c","r","o","l","l"," ","c","o","d","e">>, arg, valid_msc)>> ELSE <<>>
      ELSE IF behavior = <<"m","m","v">>
      THEN IF arg \notin valid_mmv
           THEN <<SetMessage(n, <<"m","o","u","s","e"," ","m","o","v","e">>, arg, valid_mmv)>> ELSE <<>>
      ELSE IF behavior \notin VALID_BEHAVIORS
      THEN <<<<"L","i","n","e"," ">> \o IntToStr(n) \o <<":"," ","U","n","k","n","o","w","n"," ","b","e","h","a","v","i","o","r">>>>
      ELSE <<>>

\* Lines 104-123: the messages one binding appends to errors, none or one.
CheckBinding(b) ==
  LET n == b[1]
      behavior == b[2]
      arg == b[3]
  IN  IF behavior = <<"k","p">>
      THEN IF arg \notin VALID_KEYCODES THEN <<KpMessage(n, arg)>> ELSE <<>>
      ELSE IF behavior = <<"m","k","p">>
      THEN IF arg \notin valid_mkp
           THEN <<SetMessage(n, <<"m","o","u","s","e"," ","b","u","t","t","o","n">>, arg, valid_mkp)>> ELSE <<>>
      ELSE IF behavior = <<"m","s","c">>
      THEN IF arg \notin valid_msc
           THEN <<SetMessage(n, <<"s","c","r","o","l","l"," ","c","o","d","e">>, arg, valid_msc)>> ELSE <<>>
      ELSE IF behavior = <<"m","m","v">>
      THEN IF arg \notin valid_mmv
           THEN <<SetMessage(n, <<"m","o","u","s","e"," ","m","o","v","e">>, arg, valid_mmv)>> ELSE <<>>
      ELSE <<>>

\* A plausible slip: a message already in the list is not appended again.
AppendErrorsOnce(errs, msgs) ==
  IF msgs /= <<>> /\ \E j \in 1..Len(errs) : errs[j] = msgs[1]
  THEN errs
  ELSE errs \o msgs

\* errors.append(msg) for each message of the iteration.
AppendErrors(errs, msgs) == errs \o msgs

-----------------------------------------------------------------------------
(* The inputs: the command line and the text of the file.                  *)

ProgramName == <<"v","k",".","p","y">>

\* The strings given as command-line arguments.
ArgStrings == {<<"z","m","k","/","/","k","e","y","m","a","p">>}

\* sys.argv: the program name and at most MaxArgs arguments.
ArgVectors ==
  {<<ProgramName>> \o a : a \in UNION {[1..n -> ArgStrings] : n \in 0..MaxArgs}}

\* The pieces a file content is put together from: the line break, the two
\* comment markers (one behind leading whitespace and before a declaration
\* that the comment hides), declarations of each
\* validated behavior with a valid argument (one separated by a tab), two
\* tokens that lengthen the argument before them, an unknown keycode, an
\* inert and an unrecognized behavior, and a behavior without argument.
Fragments ==
  {<<"\n">>,
   <<"/","/">>,
   <<"\t"," ","/","*"," ","&","k","p"," ","Z","Z">>,
   <<"&","k","p"," ","C">>,
   <<"_","V","O","L","_","M","U","T","E">>,
   <<"_","V","O","L","_","D","O","W","N">>,
   <<"&","k","p"," ","Z","Z">>,
   <<"&","m","k","p","\t","L","C","L","K">>,
   <<"&","m","s","c"," ","S","C","R","L","_","U","P">>,
   <<"&","m","m","v"," "," ","M","O","V","E","_","U","P">>,
   <<"&","m","t"," ","Z","Z">>,
   <<"&","U+00E9","9"," ","Z","Z">>,
   <<"&","k","p">>}

RECURSIVE Concat(_)
Concat(ss) == IF ss = <<>> THEN <<>> ELSE Head(ss) \o Concat(Tail(ss))

\* The texts read_text() may return.
Contents ==
  {Concat(fs) : fs \in UNION {[1..n -> Fragments] : n \in 0..MaxFrags}}

-----------------------------------------------------------------------------
(* What main prints.                                                       *)

UsageLine == <<"U","s","a","g","e",":"," ","v","a","l","i","d","a","t","e","_","k","e","y","m","a","p",".","p","y"," ","<","k","e","y","m","a","p","_","f","i","l","e",">">>

NotFoundLine(filepath) == <<"E","r","r","o","r",":"," ","F","i","l","e"," ","n","o","t"," ","f","o","u","n","d",":"," ">> \o filepath

FailureHeader == <<"U+2717"," ","K","e","y","m","a","p"," ","v","a","l","i","d","a","t","i","o","n"," ","f","a","i","l","e","d",":">>

ErrorLine(error) == <<" "," ">> \o error

SuccessLine == <<"U+2713"," ","K","e","y","m","a","p"," ","k","e","y","c","o","d","e","s"," ","a","r","e"," ","v","a","l","i","d">>

-----------------------------------------------------------------------------
(* The state.  pc is the statement main is at or has exited from; content  *)
(* and status hold no element while unset and one element once set; out is *)
(* the lines printed to standard output.                                   *)

Init ==
  /\ pc = "main"
  /\ argv \in ArgVectors
  /\ content = <<>>
  /\ lines = <<>>
  /\ bindings = <<>>
  /\ bpos = 1
  /\ errors = <<>>
  /\ epos = 1
  /\ out = <<>>
  /\ status = <<>>

\* A plausible slip: the argument count tested with != 2.
MainCheckArgsExactlyOne ==
  /\ pc = "main"
  /\ IF Len(argv) /= 2
     THEN /\ out' = Append(out, UsageLine)
          /\ status' = <<1>>
          /\ pc' = "exit_usage"
     ELSE /\ pc' = "exists"
          /\ UNCHANGED <<out, status>>
  /\ UNCHANGED <<argv, content, lines, bindings, bpos, errors, epos>>

\* Lines 128-130.
MainCheckArgs ==
  /\ pc = "main"
  /\ IF Len(argv) < 2
     THEN /\ out' = Append(out, UsageLine)
          /\ status' = <<1>>
          /\ pc' = "exit_usage"
     ELSE /\ pc' = "exists"
          /\ UNCHANGED <<out, status>>
  /\ UNCHANGED <<argv, content, lines, bindings, bpos, errors, epos>>

\* A plausible slip: the sys.exit(1) after the file-not-found line left out.
MainCheckExistsNoExit ==
  /\ pc = "exists"
  /\ \E exists \in BOOLEAN :
       IF ~exists
       THEN /\ out' = Append(out, NotFoundLine(PathStr(argv[2])))
            /\ pc' = "read"
            /\ UNCHANGED status
       ELSE /\ pc' = "read"
            /\ UNCHANGED <<out, status>>
  /\ UNCHANGED <<argv, content, lines, bindings, bpos, errors, epos>>

\* Lines 132-135.  Whether the path exists is the file system's answer.
MainCheckExists ==
  /\ pc = "exists"
  /\ \E exists \in BOOLEAN :
       IF ~exists
       THEN /\ out' = Append(out, NotFoundLine(PathStr(argv[2])))
            /\ status' = <<1>>
            /\ pc' = "exit_notfound"
       ELSE /\ pc' = "read"
            /\ UNCHANGED <<out, status>>
  /\ UNCHANGED <<argv, content, lines, bindings, bpos, errors, epos>>

\* Line 92: read_text() returns the text of the file.
ReadText ==
  /\ pc = "read"
  /\ \E text \in Contents : content' = <<text>>
  /\ pc' = "extract"
  /\ UNCHANGED <<argv, lines, bindings, bpos, errors, epos, out, status>>

\* Line 92: read_text() raises (a directory, no permission, a file removed
\* since the test); nothing catches it, the traceback goes to standard
\* error and the interpreter exits with status 1.
ReadTextRaises ==
  /\ pc = "read"
  /\ pc' = "raised"
  /\ status' = <<1>>
  /\ UNCHANGED <<argv, content, lines, bindings, bpos, errors, epos, out>>

\* Line 93 and lines 75-88: the whole of extract_bindings.
ExtractBindings ==
  /\ pc = "extract"
  /\ lines' = Split(content[1], "\n")
  /\ bindings' = extract_bindings(content[1])
  /\ pc' = "validate"
  /\ UNCHANGED <<argv, content, bpos, errors, epos, out, status>>

\* Lines 103-123: one iteration of the loop over the bindings.
ValidateBinding ==
  /\ pc = "validate"
  /\ bpos <= Len(bindings)
  /\ errors' = AppendErrors(errors, CheckBinding(bindings[bpos]))
  /\ bpos' = bpos + 1
  /\ UNCHANGED <<pc, argv, content, lines, bindings, epos, out, status>>

\* Lines 125 and 137: the loop is over, errors is returned to main.
ValidateReturn ==
  /\ pc = "validate"
  /\ bpos > Len(bindings)
  /\ pc' = "report"
  /\ UNCHANGED <<argv, content, lines, bindings, bpos, errors, epos, out, status>>

\* A plausible slip: the branches of line 139 the wrong way round.
ReportSuccessInverted ==
  /\ pc = "report"
  /\ errors /= <<>>
  /\ out' = Append(out, SuccessLine)
  /\ status' = <<0>>
  /\ pc' = "exit_ok"
  /\ UNCHANGED <<argv, content, lines, bindings, bpos, errors, epos>>

\* Lines 144-146.
ReportSuccess ==
  /\ pc = "report"
  /\ errors = <<>>
  /\ out' = Append(out, SuccessLine)
  /\ status' = <<0>>
  /\ pc' = "exit_ok"
  /\ UNCHANGED <<argv, content, lines, bindings, bpos, errors, epos>>

\* Lines 139-140.
ReportFailure ==
  /\ pc = "report"
  /\ errors /= <<>>
  /\ out' = Append(out, FailureHeader)
  /\ pc' = "print"
  /\ UNCHANGED <<argv, content, lines, bindings, bpos, errors, epos, status>>

\* Lines 141-142: one iteration of the loop over errors.
PrintError ==
  /\ pc = "print"
  /\ epos <= Len(errors)
  /\ out' = Append(out, ErrorLine(errors[epos]))
  /\ epos' = epos + 1
  /\ UNCHANGED <<pc, argv, content, lines, bindings, bpos, errors, status>>

\* Line 143.
ExitFailure ==
  /\ pc = "print"
  /\ epos > Len(errors)
  /\ status' = <<1>>
  /\ pc' = "exit_fail"
  /\ UNCHANGED <<argv, content, lines, bindings, bpos, errors, epos, out>>

Next ==
  \/ MainCheckArgs
  \/ MainCheckExists
  \/ ReadText
  \/ ReadTextRaises
  \/ ExtractBindings
  \/ ValidateBinding
  \/ ValidateReturn
  \/ ReportSuccess
  \/ ReportFailure
  \/ PrintError
  \/ ExitFailure

Spec == Init /\ [][Next]_vars

-----------------------------------------------------------------------------
(* The properties.  They are stated with the definitions below, which      *)
(* describe the expected results by quantification over positions and by   *)
(* literal texts, not by the operators that compute them above.            *)

Terminated == pc \in {"exit_usage", "exit_notfound", "exit_ok", "exit_fail", "raised"}

Validated == pc \in {"report", "print", "exit_ok", "exit_fail"}

\* The state in which extract_bindings has just returned.
Extracted == pc = "validate" /\ bpos = 1

\* ValidateBinding is about to process a binding of one of these behaviors.
AtBinding(behaviors) ==
  /\ pc = "validate"
  /\ bpos <= Len(bindings)
  /\ bindings[bpos][2] \in behaviors

\* The step appended nothing to errors.
AddsNothing == errors' = errors

\* The step appended exactly the message msg to errors.
AddsExactly(msg) == errors' = Append(errors, msg)

\* The step appended exactly one message, which begins with prefix.
AddsOneStarting(prefix) ==
  /\ Len(errors') = Len(errors) + 1
  /\ SubSeq(errors', 1, Len(errors)) = errors
  /\ StartsWith(errors'[Len(errors')], prefix)

CheckedBehaviors == {<<"k","p">>, <<"m","k","p">>, <<"m","s","c">>, <<"m","m","v">>}

\* The binding fails the membership test of its behavior.
FailsMembership(b) ==
  \/ b[2] = <<"k","p">> /\ b[3] \notin VALID_KEYCODES
  \/ b[2] = <<"m","k","p">> /\ b[3] \notin valid_mkp
  \/ b[2] = <<"m","s","c">> /\ b[3] \notin valid_msc
  \/ b[2] = <<"m","m","v">> /\ b[3] \notin valid_mmv

FailingBindings == SelectSeq(bindings, FailsMembership)

\* The message is about binding b: it starts with b's line number and quotes
\* b's argument.
NamesBinding(msg, b) ==
  /\ StartsWith(msg, <<"L","i","n","e"," ">> \o IntToStr(b[1]) \o <<":"," ">>)
  /\ Contains(<<" ","'">> \o b[3] \o <<"'">>, msg)

\* What main prints for a non-empty list of diagnostics.
FailureReport == <<FailureHeader>> \o [j \in 1..Len(errors) |-> ErrorLine(errors[j])]

\* The trimmed line starts with // or /*: only whitespace precedes the marker.
CommentByMarker(line) ==
  \E p \in 1..(Len(line) - 1) :
    /\ \A q \in 1..(p - 1) : line[q] \in Whitespace
    /\ line[p] = "/"
    /\ line[p + 1] \in {"/", "*"}

\* The lengths w for which the w characters after position p are word
\* characters.
WordLengths(line, p) ==
  {w \in 1..(Len(line) - p) : \A q \in (p + 1)..(p + w) : line[q] \in WordChars}

\* The lengths s for which the s characters after position p are of the
\* separator class sep and the character after them is an argument character.
SeparatorLengths(line, p, sep) ==
  {s \in 1..(Len(line) - p - 1) :
     /\ \A q \in (p + 1)..(p + s) : line[q] \in sep
     /\ line[p + s + 1] \in ArgChars}

\* <<w, s>>: at position p stands an ampersand, then w word characters, then
\* s characters of the separator class sep, then an argument character.
Shape(line, p, sep) ==
  IF line[p] /= "&" THEN {}
  ELSE UNION {{<<w, s>> : s \in SeparatorLengths(line, p + w, sep)}
                : w \in WordLengths(line, p)}

\* The triple of the declaration of shape c at p: the behavior is the word
\* token, the argument the longest run of argument characters after the
\* separator.
TripleAt(n, line, p, c) ==
  LET first == p + c[1] + c[2] + 1
      last == Max({e \in first..Len(line) : \A q \in first..e : line[q] \in ArgChars})
  IN  <<n, SubSeq(line, p + 1, p + c[1]), SubSeq(line, first, last)>>

RECURSIVE DeclarationsFrom(_, _, _, _)
\* The triples of the declarations of the line at positions p and up, one
\* for each position where a declaration stands.
DeclarationsFrom(n, line, p, sep) ==
  IF p > Len(line) THEN <<>>
  ELSE LET shapes == Shape(line, p, sep)
       IN  (IF shapes = {} THEN <<>>
            ELSE <<TripleAt(n, line, p, CHOOSE c \in shapes : TRUE)>>)
             \o DeclarationsFrom(n, line, p + 1, sep)

RECURSIVE ExpectedFrom(_, _)
\* The expected triples of the lines n and up, comment lines yielding none.
ExpectedFrom(n, sep) ==
  IF n > Len(lines) THEN <<>>
  ELSE (IF CommentByMarker(lines[n]) THEN <<>>
        ELSE DeclarationsFrom(n, lines[n], 1, sep))
         \o ExpectedFrom(n + 1, sep)

OnLine(n) == SelectSeq(bindings, LAMBDA b : b[1] = n)

-----------------------------------------------------------------------------

\* C1: in a run whose file was read, main exits with status 0 having printed
\* only the confirmation line if and only if validate_keymap returned no
\* diagnostic; otherwise it has printed the failure header and every
\* diagnostic and exits with status 1.  Status 0 never goes with a diagnostic.
C1_ExitStatusFollowsDiagnostics ==
  /\ (content /= <<>> /\ status /= <<>>) =>
       /\ pc \in {"exit_ok", "exit_fail"}
       /\ status = <<0>> <=> errors = <<>>
       /\ errors = <<>> => out = <<SuccessLine>>
       /\ errors /= <<>> => status = <<1>> /\ out = FailureReport
  /\ status = <<0>> => errors = <<>> /\ pc = "exit_ok"

C1_Witness == pc = "exit_fail" /\ Len(errors) >= 2 /\ status = <<1>>

\* C2: the diagnostics are, in scan order, one entry for each extracted
\* binding that fails its membership test: as many entries as failing
\* bindings, the j-th about the j-th failing binding, repeated bindings
\* giving repeated entries; the bindings are in ascending order of their
\* 1-indexed line number, which counts every line of the text; main prints
\* them in that order.
C2_OneDiagnosticPerFailingBindingInOrder ==
  Validated =>
    /\ Len(errors) = Len(FailingBindings)
    /\ \A j \in 1..Len(errors) : NamesBinding(errors[j], FailingBindings[j])
    /\ \A j \in 1..Len(bindings) : \A h \in 1..(j - 1) : bindings[h][1] <= bindings[j][1]
    /\ \A j \in 1..Len(bindings) :
         /\ bindings[j][1] \in 1..Len(lines)
         /\ Contains(<<"&">> \o bindings[j][2], lines[bindings[j][1]])
    /\ lines = Split(content[1], "\n")
    /\ pc = "exit_fail" => out = FailureReport

C2_Witness ==
  /\ pc = "exit_fail"
  /\ Len(errors) = 2
  /\ errors[1] = errors[2]

\* C3: a kp binding whose argument is in VALID_KEYCODES adds no diagnostic;
\* one whose argument is not adds exactly one diagnostic, which begins with
\* "Line n: Unknown keycode 'arg'", n being the binding's line number.
C3_KpMembership ==
  [][AtBinding({<<"k","p">>}) /\ bpos' = bpos + 1 =>
       LET n == bindings[bpos][1]
           arg == bindings[bpos][3]
       IN  IF arg \in VALID_KEYCODES THEN AddsNothing
           ELSE AddsOneStarting(<<"L","i","n","e"," ">> \o IntToStr(n)
                                  \o <<":"," ","U","n","k","n","o","w","n"," ","k","e","y","c","o","d","e"," ","'">> \o arg \o <<"'">>)]_vars

C3_Witness ==
  /\ pc = "validate"
  /\ \E j \in 1..(bpos - 1) : bindings[j][2] = <<"k","p">> /\ bindings[j][3] \in VALID_KEYCODES
  /\ \E j \in 1..(bpos - 1) : bindings[j][2] = <<"k","p">> /\ bindings[j][3] \notin VALID_KEYCODES
  /\ Len(errors) = 1

\* The suggestion suffix C4 states for an unknown keycode.
C4_Suffix(arg) ==
  LET mute == Contains(<<"V","O","L","_","M","U","T","E">>, arg)
      down == Contains(<<"V","O","L","_","D","O","W","N">>, arg)
  IN  IF mute /\ down THEN <<" ","(","d","i","d"," ","y","o","u"," ","m","e","a","n",":"," ","C","_","M","U","T","E",","," ","C","_","V","O","L","_","D","N","?",")">>
      ELSE IF mute THEN <<" ","(","d","i","d"," ","y","o","u"," ","m","e","a","n",":"," ","C","_","M","U","T","E","?",")">>
      ELSE IF down THEN <<" ","(","d","i","d"," ","y","o","u"," ","m","e","a","n",":"," ","C","_","V","O","L","_","D","N","?",")">>
      ELSE <<>>

\* C4: the diagnostic of a kp binding with an unknown keycode ends with the
\* suggestion its argument's substrings determine: C_MUTE for VOL_MUTE,
\* C_VOL_DN for VOL_DOWN, "C_MUTE, C_VOL_DN" in one parenthetical for both,
\* nothing for neither; C_VOL_MUTE suggests C_MUTE and C_VOL_DOWN C_VOL_DN.
C4_SuggestionSuffix ==
  [][AtBinding({<<"k","p">>}) /\ bpos' = bpos + 1 /\ bindings[bpos][3] \notin VALID_KEYCODES =>
       LET n == bindings[bpos][1]
           arg == bindings[bpos][3]
       IN  /\ AddsExactly(<<"L","i","n","e"," ">> \o IntToStr(n) \o <<":"," ","U","n","k","n","o","w","n"," ","k","e","y","c","o","d","e"," ","'">>
                            \o arg \o <<"'">> \o C4_Suffix(arg))
           /\ arg = <<"C","_","V","O","L","_","M","U","T","E">> =>
                AddsExactly(<<"L","i","n","e"," ">> \o IntToStr(n)
                  \o <<":"," ","U","n","k","n","o","w","n"," ","k","e","y","c","o","d","e"," ","'","C","_","V","O","L","_","M","U","T","E","'"," ","(","d","i","d"," ","y","o","u"," ","m","e","a","n",":"," ","C","_","M","U","T","E","?",")">>)
           /\ arg = <<"C","_","V","O","L","_","D","O","W","N">> =>
                AddsExactly(<<"L","i","n","e"," ">> \o IntToStr(n)
                  \o <<":"," ","U","n","k","n","o","w","n"," ","k","e","y","c","o","d","e"," ","'","C","_","V","O","L","_","D","O","W","N","'"," ","(","d","i","d"," ","y","o","u"," ","m","e","a","n",":"," ","C","_","V","O","L","_","D","N","?",")">>)]_vars

C4_Witness ==
  /\ pc = "validate"
  /\ bpos = 2
  /\ bindings[1][2] = <<"k","p">>
  /\ Contains(<<"V","O","L","_","M","U","T","E">>, bindings[1][3])
  /\ Contains(<<"V","O","L","_","D","O","W","N">>, bindings[1][3])
  /\ Len(errors) = 1

\* C5: a mkp, msc or mmv binding whose argument is in the behavior's set adds
\* no diagnostic; one whose argument is outside adds exactly one, whose list
\* of valid values is that set's members in alphabetical order, never the
\* values of another behavior's set.
C5_SetMembership ==
  [][AtBinding({<<"m","k","p">>, <<"m","s","c">>, <<"m","m","v">>}) /\ bpos' = bpos + 1 =>
       LET n == bindings[bpos][1]
           behavior == bindings[bpos][2]
           arg == bindings[bpos][3]
           head == <<"L","i","n","e"," ">> \o IntToStr(n) \o <<":"," ","I","n","v","a","l","i","d"," ">>
       IN  /\ behavior = <<"m","k","p">> =>
                IF arg \in valid_mkp THEN AddsNothing
                ELSE AddsExactly(head \o <<"m","o","u","s","e"," ","b","u","t","t","o","n"," ","'">> \o arg
                       \o <<"'"," ","(","v","a","l","i","d",":"," ","L","C","L","K",","," ","M","B","1",","," ","M","B","2",","," ","M","B","3",","," ","M","B","4",","," ","M","B","5",","," ","M","C","L","K",","," ","R","C","L","K",")">>)
           /\ behavior = <<"m","s","c">> =>
                IF arg \in valid_msc THEN AddsNothing
                ELSE AddsExactly(head \o <<"s","c","r","o","l","l"," ","c","o","d","e"," ","'">> \o arg
                       \o <<"'"," ","(","v","a","l","i","d",":"," ","S","C","R","L","_","D","O","W","N",","," ","S","C","R","L","_","L","E","F","T",","," ","S","C","R","L","_","R","I","G","H","T",","," ","S","C","R","L","_","U","P",")">>)
           /\ behavior = <<"m","m","v">> =>
                IF arg \in valid_mmv THEN AddsNothing
                ELSE AddsExactly(head \o <<"m","o","u","s","e"," ","m","o","v","e"," ","'">> \o arg
                       \o <<"'"," ","(","v","a","l","i","d",":"," ","M","O","V","E","_","D","O","W","N",","," ","M","O","V","E","_","L","E","F","T",","," ","M","O","V","E","_","R","I","G","H","T",","," ","M","O","V","E","_","U","P",")">>)]_vars

C5_Witness ==
  /\ pc = "validate"
  /\ bpos = 3
  /\ bindings[1][2] = <<"m","k","p">> /\ bindings[1][3] \notin valid_mkp
  /\ bindings[2][2] = <<"m","s","c">> /\ bindings[2][3] \in valid_msc
  /\ Len(errors) = 1

\* C6: processing a binding whose behavior is none of kp, mkp, msc and mmv
\* leaves the diagnostics unchanged, whether the behavior is in
\* VALID_BEHAVIORS or unrecognized; a run whose bindings are all of this
\* kind exits with status 0.
C6_OtherBehaviorsAccepted ==
  [][/\ (/\ pc = "validate"
         /\ bpos <= Len(bindings)
         /\ bindings[bpos][2] \notin CheckedBehaviors
         /\ bpos' = bpos + 1)
          => AddsNothing
     /\ (/\ pc' \in {"exit_ok", "exit_fail"}
         /\ \A j \in 1..Len(bindings') : bindings'[j][2] \notin CheckedBehaviors)
          => (pc' = "exit_ok" /\ status' = <<0>>)]_vars

C6_Witness ==
  /\ pc = "exit_ok"
  /\ status = <<0>>
  /\ \E j \in 1..Len(bindings) : bindings[j][2] \in VALID_BEHAVIORS \ CheckedBehaviors
  /\ \E j \in 1..Len(bindings) : bindings[j][2] \notin VALID_BEHAVIORS

\* C7: a line whose trimmed content starts with // or /* yields no binding
\* with its line number; every other line is scanned, also one inside a
\* block comment opened on an earlier line and one with a trailing comment.
C7_CommentLinesSkipped ==
  Extracted =>
    \A n \in 1..Len(lines) :
      IF CommentByMarker(lines[n]) THEN OnLine(n) = <<>>
      ELSE OnLine(n) = DeclarationsFrom(n, lines[n], 1, Whitespace)

C7_Witness ==
  /\ Extracted
  /\ Len(lines) = 2
  /\ lines[1] = <<"\t"," ","/","*"," ","&","k","p"," ","Z","Z">>
  /\ lines[2] = <<"&","k","p"," ","Z","Z">>
  /\ bindings = << <<2, <<"k","p">>, <<"Z","Z">>>> >>

\* C8, as the claim states it: the run goes on to read a file only when
\* exactly one argument was given, and prints the usage line and exits with
\* status 1 for every other argument count.
C8_ExactlyOneArgument ==
  pc /= "main" =>
    IF Len(argv) = 2 THEN pc /= "exit_usage"
    ELSE pc = "exit_usage" /\ out = <<UsageLine>> /\ status = <<1>>

\* C8, amended: the run goes on to read a file when at least one argument
\* was given, the first being the path and the others ignored; only with no
\* argument does it print the usage line and exit with status 1.
C8_AtLeastOneArgument ==
  /\ pc /= "main" =>
       IF Len(argv) >= 2 THEN pc /= "exit_usage"
       ELSE pc = "exit_usage" /\ out = <<UsageLine>> /\ status = <<1>>
  /\ content /= <<>> => Len(argv) >= 2

C8_Witness == pc = "extract" /\ Len(argv) = 3 /\ content /= <<>>

\* C9: with the argument missing or the path not existing, main prints
\* exactly one message, the usage line or the file-not-found line naming the
\* path, and exits with status 1 at once: nothing was read, extracted or
\* validated and no other line is printed.  With diagnostics, the exit comes
\* only after the header and the whole list were printed.
C9_FatalSetupErrorsExitAtOnce ==
  LET untouched == content = <<>> /\ lines = <<>> /\ bindings = <<>> /\ errors = <<>>
      notfound == out /= <<>> /\ StartsWith(out[1], <<"E","r","r","o","r",":"," ","F","i","l","e"," ","n","o","t"," ","f","o","u","n","d",":"," ">>)
  IN  /\ (pc /= "main" /\ Len(argv) < 2) => pc = "exit_usage"
      /\ (pc = "exit_usage" \/ (out /= <<>> /\ out[1] = UsageLine)) =>
           /\ pc = "exit_usage"
           /\ out = <<UsageLine>>
           /\ status = <<1>>
           /\ untouched
      /\ (pc = "exit_notfound" \/ notfound) =>
           /\ pc = "exit_notfound"
           /\ out = <<<<"E","r","r","o","r",":"," ","F","i","l","e"," ","n","o","t"," ","f","o","u","n","d",":"," ","z","m","k","/","k","e","y","m","a","p">>>>
           /\ status = <<1>>
           /\ untouched
      /\ (status = <<1>> /\ errors /= <<>>) => pc = "exit_fail" /\ out = FailureReport

C9_Witness == pc = "exit_notfound" /\ Len(out) = 1 /\ status = <<1>>

\* C10, as the claim states it: on every non-comment line the triples are
\* those of the declarations whose behavior and argument are separated by
\* one or more space characters; any other ampersand yields none.
C10_SpaceSeparated == Extracted => bindings = ExpectedFrom(1, {" "})

\* C10, amended: on every non-comment line the triples are, left to right,
\* those of the declarations made of an ampersand, a word token, one or more
\* whitespace characters (a space, a tab, any character \s matches) and an
\* argument token taken as the longest run of letters, digits and
\* underscores; an ampersand and word not followed by whitespace and such a
\* token yields no triple and does not keep a later declaration of the line
\* from being extracted.
C10_WhitespaceSeparated == Extracted => bindings = ExpectedFrom(1, Whitespace)

C10_Witness ==
  /\ Extracted
  /\ content = <<<<"&","k","p","&","m","k","p","\t","L","C","L","K","&","k","p"," ","Z","Z">>>>
  /\ bindings = << <<1, <<"m","k","p">>, <<"L","C","L","K">>>>, <<1, <<"k","p">>, <<"Z","Z">>>> >>

=============================================================================
